---- MODULE Spec2Model ----
(***************************************************************************)
(* Model of the TPG26x serial driver (src/tpg26x/tpg26x.py) and of its     *)
(* polling entry point (src/tpg26x/cli.py).                                *)
(*                                                                         *)
(* Byte strings are sequences of byte values.  An operation of a session   *)
(* is modelled in the steps the code blocks at: the call writes the        *)
(* command frame, the first serial readline delivers the handshake line,   *)
(* the second one the enquired payload.  What the device puts on the line  *)
(* is an input, drawn from RawLines.                                       *)
(*                                                                         *)
(* Spec        operations issued one at a time on up to MaxSessions        *)
(*             sessions                                                    *)
(* SpecFramer  _format and readline on bounded byte strings                *)
(* SpecCallers MaxCallers callers on one session, the lines the device     *)
(*             sent kept in arrival order, with and without a lock         *)
(* SpecCli     cli.main: construct, poll read_gauge1, stop                 *)
(*                                                                         *)
(* Note on GaugeID (tpg26x.py:151-178): the class mixes in int while its   *)
(* members are byte strings.  The methods of Tpg26x are modelled as        *)
(* written; a GaugeID member, being an int, never equals a received byte   *)
(* string, so _search_gauge_id finds no member.                            *)
(***************************************************************************)
EXTENDS Integers, Sequences, FiniteSets, TLC

(* ---------------------------------------------------------------------- *)
(* Bounds                                                                  *)
(* ---------------------------------------------------------------------- *)
\* number of sessions (Tpg26x instances) a host program creates
MaxSessions == 2
\* operations a host program issues in one run, over all sessions
MaxCalls == 2
\* longest argument list given to _format in the framing checks
MaxArgs == 2
\* longest byte string the serial port returns in the framing checks
MaxLen == 3

Sessions == 1..MaxSessions

(* ---------------------------------------------------------------------- *)
(* Bytes                                                                   *)
(* ---------------------------------------------------------------------- *)
CR == 13
LF == 10
ENQUIRY == <<5>>
ACK == <<6>>
NACK == <<21>>
NEWLINE == <<CR, LF>>
\* b","
COMMA == 44
\* b"E"
CHAR_E == 69
\* b"+", b"-", b"."
PLUS == 43
MINUS == 45
DOT == 46
\* b"0" .. b"9" are the bytes 48 .. 57
DIGIT0 == 48
IsDigit(b) == b >= DIGIT0 /\ b <= DIGIT0 + 9

None == "None"

\* class Mnemonics: the members the session operations use, and COM
Mnemonics ==
  [ COM |-> <<67, 79, 77>>,
    ERR |-> <<69, 82, 82>>,
    PR1 |-> <<80, 82, 49>>,
    PR2 |-> <<80, 82, 50>>,
    PRX |-> <<80, 82, 88>>,
    RES |-> <<82, 69, 83>>,
    SCT |-> <<83, 67, 84>>,
    SEN |-> <<83, 69, 78>>,
    TID |-> <<84, 73, 68>> ]

MnemonicNames == DOMAIN Mnemonics

(* ---------------------------------------------------------------------- *)
(* Python byte-string primitives                                           *)
(* ---------------------------------------------------------------------- *)
\* data[-2:]
LastTwo(data) ==
  IF Len(data) <= 2 THEN data ELSE SubSeq(data, Len(data) - 1, Len(data))

\* data[:-2]
DropLastTwo(data) ==
  IF Len(data) <= 2 THEN <<>> ELSE SubSeq(data, 1, Len(data) - 2)

\* variant: a comma after every argument, the last included
RECURSIVE JoinTrailing(_)
JoinTrailing(args) ==
  IF Len(args) = 0 THEN <<>>
  ELSE args[1] \o <<COMMA>> \o JoinTrailing(Tail(args))

\* b",".join(args)
RECURSIVE Join(_)
Join(args) ==
  IF Len(args) = 0 THEN <<>>
  ELSE IF Len(args) = 1 THEN args[1]
  ELSE args[1] \o <<COMMA>> \o Join(Tail(args))

\* raw.split(sep) for a one-byte separator: always at least one field
RECURSIVE SplitFrom(_, _, _, _)
SplitFrom(raw, sep, i, field) ==
  IF i > Len(raw) THEN <<field>>
  ELSE IF raw[i] = sep THEN <<field>> \o SplitFrom(raw, sep, i + 1, <<>>)
  ELSE SplitFrom(raw, sep, i + 1, Append(field, raw[i]))

Split(raw, sep) == SplitFrom(raw, sep, 1, <<>>)

(* ---------------------------------------------------------------------- *)
(* Framer                                                                  *)
(* ---------------------------------------------------------------------- *)
\* Tpg26x._format(*args)
_format(args) == Join(args) \o <<CR, LF>>

\* variant: a line feed alone is taken for the terminator
readline_ok_lf(data) == Len(data) > 0 /\ data[Len(data)] = LF

\* the test of Tpg26x.readline on the bytes the serial port returned
readline_ok(data) == LastTwo(data) = NEWLINE

\* the value Tpg26x.readline returns when the test passes
readline_value(data) == DropLastTwo(data)

(* ---------------------------------------------------------------------- *)
(* Results and errors                                                      *)
(* ---------------------------------------------------------------------- *)
\* a value returned to the caller
Ok(v) == [status |-> "ok", value |-> v]

\* an exception raised to the caller: its type, its message and the bytes
\* (received data or decoded mnemonic) the message is formatted with
Error(type, msg, carry) ==
  [status |-> "error", type |-> type, msg |-> msg, carry |-> carry]

NoOutcome == [status |-> "none"]

(* ---------------------------------------------------------------------- *)
(* Handshake                                                               *)
(* ---------------------------------------------------------------------- *)
\* variant: the NACK branch is missing, a NACK is reported as any other byte
_handle_ack_no_nack(data, mnemonic) ==
  IF data = ACK THEN Ok(None)
  ELSE Error("IOError", "Unexpected data was received", data)

\* variant: only a NACK is refused, any other reply passes as an ACK
_handle_ack_lenient(data, mnemonic) ==
  IF data = NACK
    THEN Error("IOError", "Mnemonic was forbiddened by the TPG26x",
               Mnemonics[mnemonic])
  ELSE Ok(None)

\* Tpg26x._handle_ack(data, mnemonic); mnemonic is the name of the member
_handle_ack(data, mnemonic) ==
  IF data = ACK THEN Ok(None)
  ELSE IF data = NACK
    THEN Error("IOError", "Mnemonic was forbiddened by the TPG26x",
               Mnemonics[mnemonic])
  ELSE Error("IOError", "Unexpected data was received", data)

\* the IOError of Tpg26x.readline
readline_error(data) ==
  Error("IOError", "Unrecognizable data was received", data)

(* ---------------------------------------------------------------------- *)
(* Number parsing: int(bytes) and float(bytes) on sign, digits and "."     *)
(* ---------------------------------------------------------------------- *)
HasSign(b) == Len(b) > 0 /\ b[1] \in {PLUS, MINUS}
Unsigned(b) == IF HasSign(b) THEN Tail(b) ELSE b
SignOf(b) == IF HasSign(b) /\ b[1] = MINUS THEN -1 ELSE 1

RECURSIVE DigitsValue(_, _)
DigitsValue(b, acc) ==
  IF Len(b) = 0 THEN acc
  ELSE DigitsValue(Tail(b), 10 * acc + (b[1] - DIGIT0))

AllDigits(b) == \A i \in 1..Len(b) : IsDigit(b[i])

\* int(b) succeeds
IntOk(b) == Len(Unsigned(b)) > 0 /\ AllDigits(Unsigned(b))
IntValue(b) == SignOf(b) * DigitsValue(Unsigned(b), 0)

\* float(b) succeeds: digits with at most one ".", at least one digit
FloatOk(b) ==
  LET u == Unsigned(b)
      parts == Split(u, DOT)
  IN  /\ Len(parts) <= 2
      /\ \A i \in 1..Len(parts) : AllDigits(parts[i])
      /\ \E i \in 1..Len(parts) : Len(parts[i]) > 0

\* a decimal n * 10^e, kept with n not a multiple of 10 (zero is <<0, 0>>)
RECURSIVE Normalize(_, _)
Normalize(n, e) ==
  IF n = 0 THEN <<0, 0>>
  ELSE IF n % 10 = 0 THEN Normalize(n \div 10, e + 1)
  ELSE <<n, e>>

\* float(b) as a decimal
FloatValue(b) ==
  LET u == Unsigned(b)
      parts == Split(u, DOT)
      frac == IF Len(parts) = 2 THEN parts[2] ELSE <<>>
  IN  Normalize(SignOf(b) * DigitsValue(parts[1] \o frac, 0), 0 - Len(frac))

(* ---------------------------------------------------------------------- *)
(* Catalogs                                                                *)
(* ---------------------------------------------------------------------- *)
\* class MeasurementStatus, in definition order
MeasurementStatus ==
  << [name |-> "OK", value |-> 0],
     [name |-> "UNDERRANGE", value |-> 1],
     [name |-> "OVERRANGE", value |-> 2],
     [name |-> "SENSOR_ERROR", value |-> 3],
     [name |-> "SENSOR_OFF", value |-> 4],
     [name |-> "NO_SENSOR", value |-> 5],
     [name |-> "IDENTIFICATION_ERROR", value |-> 6] >>

MeasurementStatusNames ==
  { MeasurementStatus[i].name : i \in 1..Len(MeasurementStatus) }

\* the first member of a catalog whose value equals the given one, else None
RECURSIVE SearchFrom(_, _, _)
SearchFrom(catalog, value, i) ==
  IF i > Len(catalog) THEN None
  ELSE IF catalog[i].value = value THEN catalog[i].name
  ELSE SearchFrom(catalog, value, i + 1)

_search_measurement_status(value) == SearchFrom(MeasurementStatus, value, 1)

\* class GaugeID(int, enum.Enum): its members are ints, the value looked up
\* is a byte string, so no member compares equal
_search_gauge_id(value) == None

\* the names of the members GaugeID declares
GaugeIDNames ==
  { "TPR", "IK9", "IKR11", "PKR", "PBR", "IMR", "CMR", "NO_SENSOR",
    "NO_IDENTIFIER" }

\* class GaugeType
GaugeType ==
  << [name |-> "GAUGE1", value |-> <<48>>],
     [name |-> "GAUGE2", value |-> <<49>>] >>

\* class ErrorStatus; ERROR has the value of NO_ERROR and is its alias, so
\* iterating the class yields four members
ErrorStatus ==
  << [name |-> "NO_ERROR", value |-> <<48, 48, 48, 48>>],
     [name |-> "NO_HARDWARE", value |-> <<48, 49, 48, 48>>],
     [name |-> "INADMISSIBLE_PARAMETER", value |-> <<48, 48, 49, 48>>],
     [name |-> "SYNTAX_ERROR", value |-> <<48, 48, 48, 49>>] >>

_search_error_status(value) == SearchFrom(ErrorStatus, value, 1)

\* class ResetErrorStatus
ResetErrorStatus ==
  << [name |-> "NO_ERROR", value |-> <<48>>],
     [name |-> "WATCHDOG_RESPONDED", value |-> <<49>>],
     [name |-> "TASK_FAILED", value |-> <<50>>],
     [name |-> "EPROM_ERROR", value |-> <<51>>],
     [name |-> "RAM_ERROR", value |-> <<52>>],
     [name |-> "EEPROM_ERROR", value |-> <<53>>],
     [name |-> "DISPLAY_ERROR", value |-> <<54>>],
     [name |-> "AD_CONVERTER_ERROR", value |-> <<55>>],
     [name |-> "GAUGE1_ERROR", value |-> <<57>>],
     [name |-> "GAUGE1_IDENTIFICATION_ERROR", value |-> <<49, 48>>],
     [name |-> "GAUGE2_ERROR", value |-> <<49, 49>>],
     [name |-> "GAUGE2_IDENTIFICATION_ERROR", value |-> <<49, 50>>] >>

_search_reset_error_status(value) == SearchFrom(ResetErrorStatus, value, 1)

(* ---------------------------------------------------------------------- *)
(* Parsers                                                                 *)
(* ---------------------------------------------------------------------- *)
\* a failed tuple unpacking, int() or float()
ValueError == Error("ValueError", "ValueError", <<>>)

\* Tpg26x._parse_pressure can be evaluated without an exception
_parse_pressure_ok(raw) ==
  LET parts == Split(raw, CHAR_E)
  IN  Len(parts) = 2 /\ FloatOk(parts[1]) /\ IntOk(parts[2])

\* Tpg26x._parse_pressure: mantissa * 10**exponent
_parse_pressure(raw) ==
  LET parts == Split(raw, CHAR_E)
      mantissa == FloatValue(parts[1])
      exponent == IntValue(parts[2])
  IN  Normalize(mantissa[1], mantissa[2] + exponent)

\* Tpg26x._parse_measurement
_parse_measurement(raw) ==
  LET parts == Split(raw, COMMA)
  IN  IF Len(parts) # 2 THEN ValueError
      ELSE IF ~IntOk(parts[1]) THEN ValueError
      ELSE IF ~_parse_pressure_ok(parts[2]) THEN ValueError
      ELSE Ok(<< _search_measurement_status(IntValue(parts[1])),
                 _parse_pressure(parts[2]) >>)

\* Tpg26x._parse_measurements
_parse_measurements(raw) ==
  LET parts == Split(raw, COMMA)
  IN  IF Len(parts) # 3 THEN ValueError
      ELSE IF ~IntOk(parts[1]) THEN ValueError
      ELSE IF ~_parse_pressure_ok(parts[2]) THEN ValueError
      ELSE IF ~_parse_pressure_ok(parts[3]) THEN ValueError
      ELSE Ok(<< _search_measurement_status(IntValue(parts[1])),
                 _parse_pressure(parts[2]),
                 _parse_pressure(parts[3]) >>)

(* ---------------------------------------------------------------------- *)
(* What the serial port may return from one readline()                     *)
(* ---------------------------------------------------------------------- *)
Line(payload) == payload \o <<CR, LF>>

RawLines ==
  { Line(ACK),                                  \* b"\x06\r\n"
    Line(NACK),                                 \* b"\x15\r\n"
    <<>>,                                       \* b"" (nothing received)
    <<6, LF>>,                                  \* b"\x06\n"
    Line(<<>>),                                 \* b"\r\n"
    Line(<<48, 44, 49, 46, 48, 69, 45, 51>>),   \* b"0,1.0E-3\r\n"
    Line(<<57, 44, 49, 46, 48, 69, 45, 51>>),   \* b"9,1.0E-3\r\n"
    Line(<<48, 44, 49, 69, 48, 44, 50, 69, 48>>), \* b"0,1E0,2E0\r\n"
    Line(<<49, 44, 48>>),                       \* b"1,0\r\n"
    Line(<<49, 44, 50>>),                       \* b"1,2\r\n"
    Line(<<48, 44, 49>>),                       \* b"0,1\r\n"
    Line(<<48>>),                               \* b"0\r\n"
    Line(<<49>>),                               \* b"1\r\n"
    Line(<<55>>),                               \* b"7\r\n"
    Line(<<48, 48, 48, 48>>),                   \* b"0000\r\n"
    Line(<<48, 49, 48, 48>>),                   \* b"0100\r\n"
    Line(<<48, 48, 49, 48>>),                   \* b"0010\r\n"
    Line(<<48, 48, 48, 49>>),                   \* b"0001\r\n"
    Line(<<84, 80, 82, 44, 80, 75, 82>>) }      \* b"TPR,PKR\r\n"

(* ---------------------------------------------------------------------- *)
(* State                                                                   *)
(* ---------------------------------------------------------------------- *)
VARIABLES
  sess,       \* per session: "none" (not constructed), "open", "closed"
  inst,       \* per session: the instance __dict__ entries id_gauge1/2
  func,       \* the func of the class attributes id_gauge1 and id_gauge2
  pc,         \* "idle", "ack" (in the first readline), "data" (in the
              \* second), "done" (returning or raising to the caller)
  cur,        \* the operation in progress
  trace,      \* the transport calls of that operation, in order
  outcome,    \* what that operation returned or raised
  tidCount,   \* per session: TID cycles _get_gauge_ids has started
  fetches,    \* per session: how its TID cycles ended, in order
  calls,      \* operations issued so far
  sent,       \* framing: the arguments given to _format, <<>> if none were
  wire,       \* framing: the bytes _format produced or the port returned
  line,       \* framing: what readline made of wire
  locking,    \* callers: TRUE if each request/reply cycle runs under a lock
  lock,       \* callers: the caller that holds the lock, 0 if it is free
  cpc,        \* per caller: "idle", "ack", "enq", "data"
  ccur,       \* per caller: the call in progress
  rx,         \* callers: lines the device has sent that were not read yet
  got,        \* per caller: the line it read last, and what it read it as
  cres,       \* per caller: the result or exception of its last operation
  mainpc,     \* cli.main: "start", "polling", "returned", "raised"
  stream      \* cli.main: the output stream and the lines written to it

vars == <<sess, inst, func, pc, cur, trace, outcome, tidCount, fetches,
          calls, sent, wire, line, locking, lock, cpc, ccur, rx, got, cres,
          mainpc, stream>>

sessionVars ==
  <<sess, inst, func, pc, cur, trace, outcome, tidCount, fetches, calls>>
framerVars == <<sent, wire, line>>
callerVars == <<locking, lock, cpc, ccur, rx, got, cres>>
cliVars == <<mainpc, stream>>

\* the callers that share one session
MaxCallers == 2
Callers == 1..MaxCallers

\* an attribute that is not set / a func that is still the decorated method
Unset == [set |-> FALSE, value |-> None]
Cached(v) == [set |-> TRUE, value |-> v]

IdAttrs == {"id_gauge1", "id_gauge2"}

Write(bytes) == [ev |-> "write", data |-> bytes]
Read(bytes) == [ev |-> "read", data |-> bytes]

NoCall == [session |-> 0, op |-> "none", mnemonic |-> "none", args |-> <<>>]

\* main has not opened its output stream yet
NoStream == [state |-> "none", lines |-> <<>>]

\* a caller that has read no line yet
NoRead == [by |-> 0, kind |-> "none", as |-> "none"]

Init ==
  /\ sess = [s \in Sessions |-> "none"]
  /\ inst = [s \in Sessions |-> [a \in IdAttrs |-> Unset]]
  /\ func = [a \in IdAttrs |-> Unset]
  /\ pc = "idle"
  /\ cur = NoCall
  /\ trace = <<>>
  /\ outcome = NoOutcome
  /\ tidCount = [s \in Sessions |-> 0]
  /\ fetches = [s \in Sessions |-> <<>>]
  /\ calls = 0
  /\ sent = <<>>
  /\ wire = <<>>
  /\ line = NoOutcome
  /\ locking = FALSE
  /\ lock = 0
  /\ cpc = [c \in Callers |-> "idle"]
  /\ ccur = [c \in Callers |-> NoCall]
  /\ rx = <<>>
  /\ got = [c \in Callers |-> NoRead]
  /\ cres = [c \in Callers |-> NoOutcome]
  /\ mainpc = "start"
  /\ stream = NoStream

(* ---------------------------------------------------------------------- *)
(* Session lifecycle                                                       *)
(* ---------------------------------------------------------------------- *)
\* Tpg26x.__init__; sessions are numbered in the order they are constructed
__init__(s) ==
  /\ pc = "idle"
  /\ sess[s] = "none"
  /\ \A r \in Sessions : r < s => sess[r] # "none"
  /\ sess' = [sess EXCEPT ![s] = "open"]
  /\ UNCHANGED <<inst, func, pc, cur, trace, outcome, tidCount, fetches,
                 calls, framerVars, callerVars, cliVars>>

\* Tpg26x._close: closes the port; "del self" only drops the local name
_close(s) ==
  /\ pc = "idle"
  /\ sess[s] = "open"
  /\ sess' = [sess EXCEPT ![s] = "closed"]
  /\ UNCHANGED <<inst, func, pc, cur, trace, outcome, tidCount, fetches,
                 calls, framerVars, callerVars, cliVars>>

(* ---------------------------------------------------------------------- *)
(* Steps shared by the operations                                          *)
(* ---------------------------------------------------------------------- *)
\* a caller may start an operation on an open session when none is running
CanCall(s) == pc = "idle" /\ sess[s] = "open" /\ calls < MaxCalls

\* Tpg26x.send_command up to its readline: _write(mnemonic.value, *args)
StartCommand(s, op, mnemonic, args) ==
  /\ cur' = [session |-> s, op |-> op, mnemonic |-> mnemonic, args |-> args]
  /\ trace' = << Write(_format(<<Mnemonics[mnemonic]>> \o args)) >>
  /\ outcome' = NoOutcome
  /\ pc' = "ack"
  /\ calls' = calls + 1

\* an operation that ends without touching the transport
Immediate(s, op, result) ==
  /\ cur' = [session |-> s, op |-> op, mnemonic |-> "none", args |-> <<>>]
  /\ trace' = <<>>
  /\ outcome' = result
  /\ pc' = "done"
  /\ calls' = calls + 1

\* variant: the enquiry byte is sent as a frame, with the terminator
enquiry_framed(tr) == Append(tr, Write(_format(<<ENQUIRY>>)))

\* Tpg26x.enquiry: the transport calls after it
enquiry(tr) == Append(tr, Write(ENQUIRY))

(* ---------------------------------------------------------------------- *)
(* What each operation does with the enquired payload                      *)
(* ---------------------------------------------------------------------- *)
\* the signal byte _turn_on_off sends for an argument None / True / False
Signal(gauge) ==
  IF gauge = None THEN <<48>>
  ELSE IF gauge = "True" THEN <<49>>
  ELSE <<50>>

\* variant: the operation fails only if both echoed bytes differ
turn_on_off_echo_both(signal1, signal2, data) ==
  LET parts == Split(data, COMMA)
  IN  IF Len(parts) # 2 THEN ValueError
      ELSE IF (parts[1] # signal1) /\ (parts[2] # signal2)
        THEN Error("IOError", "Gauges cannot be turned on or off", data)
      ELSE Ok(None)

\* Tpg26x._turn_on_off after its readline: unpack the echo and compare
turn_on_off_echo(signal1, signal2, data) ==
  LET parts == Split(data, COMMA)
  IN  IF Len(parts) # 2 THEN ValueError
      ELSE IF (parts[1] # signal1) \/ (parts[2] # signal2)
        THEN Error("IOError", "Gauges cannot be turned on or off", data)
      ELSE Ok(None)

\* the return value of Tpg26x._change_channel
change_channel_reply(data) == IF data = <<48>> THEN "GAUGE1" ELSE "GAUGE2"

\* change_channel_1 / change_channel_2 after _change_channel returned
change_channel_check(requested, data) ==
  IF change_channel_reply(data) # requested
    THEN Error("IOError",
               "Measurement channel wasn't changed appropriately", <<>>)
  ELSE Ok(None)

\* variant: whatever the lookup gives is returned, found or not
error_status_of_unchecked(data) == Ok(_search_error_status(data))

\* Tpg26x.get_error_status after its readline
error_status_of(data) ==
  LET status == _search_error_status(data)
  IN  IF status # None THEN Ok(status)
      ELSE Error("IOError", "Unexpected binary was received", data)

\* Tpg26x.reset after its readline
reset_causes_of(data) ==
  LET parts == Split(data, COMMA)
  IN  Ok([i \in 1..Len(parts) |-> _search_reset_error_status(parts[i])])

\* variant: a reply that is not two fields is taken as two absent identities
gauge_ids_of_padded(data) ==
  LET parts == Split(data, COMMA)
  IN  IF Len(parts) # 2 THEN Ok(<< None, None >>)
      ELSE Ok(<< _search_gauge_id(parts[1]), _search_gauge_id(parts[2]) >>)

\* Tpg26x._get_gauge_ids after its readline: the pair, or the failed unpack
gauge_ids_of(data) ==
  LET parts == Split(data, COMMA)
  IN  IF Len(parts) # 2 THEN ValueError
      ELSE Ok(<< _search_gauge_id(parts[1]), _search_gauge_id(parts[2]) >>)

ReadOps == {"read_gauge1", "read_gauge2"}
PowerOps == {"turn_on_gauge1", "turn_on_gauge2", "_turn_on_off"}
BrokenPowerOps ==
  {"turn_on_both", "turn_off_gauge1", "turn_off_gauge2", "turn_off_both"}
ChannelOps == {"change_channel_1", "change_channel_2"}

\* the outcome of an operation other than an identity fetch, given the
\* decoded payload
Finish(op, args, data) ==
  IF op \in ReadOps THEN _parse_measurement(data)
  ELSE IF op = "read_both" THEN _parse_measurements(data)
  ELSE IF op \in PowerOps THEN turn_on_off_echo(args[1], args[2], data)
  ELSE IF op = "change_channel_1" THEN change_channel_check("GAUGE1", data)
  ELSE IF op = "change_channel_2" THEN change_channel_check("GAUGE2", data)
  ELSE IF op = "get_error_status" THEN error_status_of(data)
  ELSE reset_causes_of(data)

(* ---------------------------------------------------------------------- *)
(* Operations: the call, up to the first readline                          *)
(* ---------------------------------------------------------------------- *)
\* variant: starting an operation drops the cached identities
Frame_forgetting ==
  /\ inst' = [s \in Sessions |-> [a \in IdAttrs |-> Unset]]
  /\ func' = [a \in IdAttrs |-> Unset]
  /\ UNCHANGED <<sess, tidCount, fetches, framerVars, callerVars, cliVars>>

\* what the operations other than the identity accesses leave alone
Frame ==
  UNCHANGED <<sess, inst, func, tidCount, fetches, framerVars, callerVars,
              cliVars>>

\* the mnemonics send_command is called with directly
DirectMnemonics == {"COM", "TID"}

\* Tpg26x.send_command called directly
send_command(s) ==
  /\ CanCall(s)
  /\ \E m \in DirectMnemonics : StartCommand(s, "send_command", m, <<>>)
  /\ Frame

\* Tpg26x._read_gauge
_read_gauge(s, op, mnemonic) ==
  /\ CanCall(s)
  /\ StartCommand(s, op, mnemonic, <<>>)
  /\ Frame

read_gauge1(s) == _read_gauge(s, "read_gauge1", "PR1")

read_gauge2(s) == _read_gauge(s, "read_gauge2", "PR2")

read_both(s) ==
  /\ CanCall(s)
  /\ StartCommand(s, "read_both", "PRX", <<>>)
  /\ Frame

\* Tpg26x._turn_on_off
_turn_on_off(s, op, gauge1, gauge2) ==
  /\ CanCall(s)
  /\ StartCommand(s, op, "SEN", << Signal(gauge1), Signal(gauge2) >>)
  /\ Frame

turn_on_gauge1(s) == _turn_on_off(s, "turn_on_gauge1", "True", None)

turn_on_gauge2(s) == _turn_on_off(s, "turn_on_gauge2", None, "True")

\* _turn_on_off called with any pair of arguments
turn_on_off_any(s) ==
  \E gauge1, gauge2 \in {None, "True", "False"} :
    _turn_on_off(s, "_turn_on_off", gauge1, gauge2)

\* turn_on_both calls self._turn_on, the turn_off_* methods call
\* self._turn_off: Tpg26x has neither attribute
MissingHelper(s, op) ==
  /\ CanCall(s)
  /\ Immediate(s, op, Error("AttributeError", "no such attribute", <<>>))
  /\ Frame

turn_on_both(s) == MissingHelper(s, "turn_on_both")

turn_off_gauge1(s) == MissingHelper(s, "turn_off_gauge1")

turn_off_gauge2(s) == MissingHelper(s, "turn_off_gauge2")

turn_off_both(s) == MissingHelper(s, "turn_off_both")

\* Tpg26x._change_channel
_change_channel(s, op, channel) ==
  /\ CanCall(s)
  /\ IF channel \notin {<<48>>, <<49>>}
       THEN Immediate(s, op, Error("ValueError",
                                   "'channel' must be 0 or 1 as bytes", <<>>))
       ELSE StartCommand(s, op, "SCT", <<channel>>)
  /\ Frame

change_channel_1(s) == _change_channel(s, "change_channel_1", GaugeType[1].value)

change_channel_2(s) == _change_channel(s, "change_channel_2", GaugeType[2].value)

get_error_status(s) ==
  /\ CanCall(s)
  /\ StartCommand(s, "get_error_status", "ERR", <<>>)
  /\ Frame

reset(s) ==
  /\ CanCall(s)
  /\ StartCommand(s, "reset", "RES", << <<49>> >>)
  /\ Frame

(* ---------------------------------------------------------------------- *)
(* Gauge identities: cached_property over _get_gauge_ids                   *)
(* ---------------------------------------------------------------------- *)
\* variant: the func of the class attributes is left alone
rebind_nothing(f, ids) == f

\* _get_gauge_ids rebinding the func of both class attributes to lambdas
\* that return the identities just fetched
rebind(f, ids) ==
  [id_gauge1 |-> Cached(ids[1]), id_gauge2 |-> Cached(ids[2])]

\* the element of the pair the property returns
IdIndex(attr) == IF attr = "id_gauge1" THEN 1 ELSE 2

\* cached_property.__get__ for id_gauge1 / id_gauge2: the instance __dict__
\* first, else func(instance), which is _get_gauge_ids until it is rebound
IdAccess(s, attr) ==
  /\ CanCall(s)
  /\ IF inst[s][attr].set
       THEN /\ Immediate(s, attr, Ok(inst[s][attr].value))
            /\ UNCHANGED <<inst, tidCount>>
     ELSE IF func[attr].set
       THEN /\ Immediate(s, attr, Ok(func[attr].value))
            /\ inst' = [inst EXCEPT ![s][attr] = Cached(func[attr].value)]
            /\ UNCHANGED tidCount
     ELSE /\ StartCommand(s, attr, "TID", <<>>)
          /\ tidCount' = [tidCount EXCEPT ![s] = @ + 1]
          /\ UNCHANGED inst
  /\ UNCHANGED <<sess, func, fetches, framerVars, callerVars, cliVars>>

id_gauge1(s) == IdAccess(s, "id_gauge1")

id_gauge2(s) == IdAccess(s, "id_gauge2")

(* ---------------------------------------------------------------------- *)
(* Operations: after the first and after the second readline               *)
(* ---------------------------------------------------------------------- *)
\* variant: after a failure the command frame is written once more
RaiseRetry(tr, error) ==
  IF Len(tr) > 4
    THEN /\ trace' = tr
         /\ outcome' = error
         /\ pc' = "done"
         /\ UNCHANGED <<sess, inst, func, cur, tidCount, fetches, calls>>
    ELSE /\ trace' = Append(tr, tr[1])
         /\ pc' = "ack"
         /\ UNCHANGED <<sess, inst, func, cur, outcome, tidCount, fetches, calls>>

\* the operation in progress ends with an exception
Raise(tr, error) ==
  /\ trace' = tr
  /\ outcome' = error
  /\ pc' = "done"
  /\ fetches' = IF cur.op \in IdAttrs
                  THEN [fetches EXCEPT ![cur.session] = Append(@, "failed")]
                  ELSE fetches
  /\ UNCHANGED <<sess, inst, func, cur, tidCount, calls>>

\* send_command from its readline on, and the enquiry of the caller
RecvAck ==
  /\ pc = "ack"
  /\ UNCHANGED <<framerVars, callerVars, cliVars>>
  /\ \E data \in RawLines :
       LET tr == Append(trace, Read(data))
       IN  IF ~readline_ok(data) THEN Raise(tr, readline_error(data))
           ELSE LET ack == _handle_ack(readline_value(data), cur.mnemonic)
                IN  IF ack.status = "error" THEN Raise(tr, ack)
                    ELSE IF cur.op = "send_command"
                      THEN /\ trace' = tr
                           /\ outcome' = ack
                           /\ pc' = "done"
                           /\ UNCHANGED <<sess, inst, func, cur, tidCount,
                                          fetches, calls>>
                    ELSE /\ trace' = enquiry(tr)
                         /\ pc' = "data"
                         /\ UNCHANGED <<sess, inst, func, cur, outcome,
                                        tidCount, fetches, calls>>

\* the readline after the enquiry and the rest of the operation
RecvData ==
  /\ pc = "data"
  /\ UNCHANGED <<framerVars, callerVars, cliVars>>
  /\ \E data \in RawLines :
       LET tr == Append(trace, Read(data))
       IN  IF ~readline_ok(data) THEN Raise(tr, readline_error(data))
           ELSE IF cur.op \in IdAttrs
             THEN LET ids == gauge_ids_of(readline_value(data))
                      mine == ids.value[IdIndex(cur.op)]
                  IN  IF ids.status = "error" THEN Raise(tr, ids)
                      ELSE /\ func' = rebind(func, ids.value)
                           /\ inst' = [inst EXCEPT
                                         ![cur.session][cur.op] = Cached(mine)]
                           /\ fetches' = [fetches EXCEPT
                                            ![cur.session] = Append(@, "ok")]
                           /\ trace' = tr
                           /\ outcome' = Ok(mine)
                           /\ pc' = "done"
                           /\ UNCHANGED <<sess, cur, tidCount, calls>>
           ELSE LET result == Finish(cur.op, cur.args, readline_value(data))
                IN  IF result.status = "error" THEN Raise(tr, result)
                    ELSE /\ trace' = tr
                         /\ outcome' = result
                         /\ pc' = "done"
                         /\ UNCHANGED <<sess, inst, func, cur, tidCount,
                                        fetches, calls>>

\* the caller takes the result or the exception; the session is free again
Return ==
  /\ pc = "done"
  /\ pc' = "idle"
  /\ cur' = NoCall
  /\ trace' = <<>>
  /\ outcome' = NoOutcome
  /\ UNCHANGED <<sess, inst, func, tidCount, fetches, calls, framerVars,
                 callerVars, cliVars>>

(* ---------------------------------------------------------------------- *)
(* Specification                                                           *)
(* ---------------------------------------------------------------------- *)
Next ==
  \/ \E s \in Sessions : __init__(s)
  \/ \E s \in Sessions : _close(s)
  \/ \E s \in Sessions : send_command(s)
  \/ \E s \in Sessions : read_gauge1(s)
  \/ \E s \in Sessions : read_gauge2(s)
  \/ \E s \in Sessions : read_both(s)
  \/ \E s \in Sessions : turn_on_gauge1(s)
  \/ \E s \in Sessions : turn_on_gauge2(s)
  \/ \E s \in Sessions : turn_on_off_any(s)
  \/ \E s \in Sessions : turn_on_both(s)
  \/ \E s \in Sessions : turn_off_gauge1(s)
  \/ \E s \in Sessions : turn_off_gauge2(s)
  \/ \E s \in Sessions : turn_off_both(s)
  \/ \E s \in Sessions : id_gauge1(s)
  \/ \E s \in Sessions : id_gauge2(s)
  \/ \E s \in Sessions : change_channel_1(s)
  \/ \E s \in Sessions : change_channel_2(s)
  \/ \E s \in Sessions : get_error_status(s)
  \/ \E s \in Sessions : reset(s)
  \/ RecvAck
  \/ RecvData
  \/ Return

Spec == Init /\ [][Next]_vars

(* ---------------------------------------------------------------------- *)
(* The framer on its own: _format and readline applied to bounded inputs   *)
(* ---------------------------------------------------------------------- *)
\* byte strings up to a length over a set of bytes
RECURSIVE BytesUpTo(_, _)
BytesUpTo(alphabet, n) ==
  IF n = 0 THEN { <<>> }
  ELSE LET shorter == BytesUpTo(alphabet, n - 1)
       IN  shorter \cup { Append(b, c) : b \in shorter, c \in alphabet }

\* the arguments tried: empty, one byte, two bytes, a comma, a terminator
ArgValues == { <<>>, <<48>>, <<49, 50>>, <<COMMA>>, <<CR, LF>> }

RECURSIVE ArgLists(_)
ArgLists(n) ==
  IF n = 0 THEN { <<>> }
  ELSE LET shorter == ArgLists(n - 1)
       IN  shorter \cup { Append(l, a) : l \in shorter, a \in ArgValues }

\* the bytes the port may return: CR, LF, ACK, b"0"
LineBytes == { CR, LF, 6, 48 }

\* _write: a frame is built from a mnemonic and arguments
Format ==
  /\ \E m \in MnemonicNames, args \in ArgLists(MaxArgs) :
       /\ sent' = <<Mnemonics[m]>> \o args
       /\ wire' = _format(<<Mnemonics[m]>> \o args)
  /\ line' = NoOutcome
  /\ UNCHANGED <<sessionVars, callerVars, cliVars>>

\* self._serial.readline() returns some bytes
Receive ==
  /\ \E data \in BytesUpTo(LineBytes, MaxLen) : wire' = data
  /\ sent' = <<>>
  /\ line' = NoOutcome
  /\ UNCHANGED <<sessionVars, callerVars, cliVars>>

\* Tpg26x.readline on those bytes
readline ==
  /\ line = NoOutcome
  /\ line' = IF readline_ok(wire) THEN Ok(readline_value(wire))
             ELSE readline_error(wire)
  /\ UNCHANGED <<sent, wire>>
  /\ UNCHANGED <<sessionVars, callerVars, cliVars>>

NextFramer ==
  \/ Format
  \/ Receive
  \/ readline

SpecFramer == Init /\ [][NextFramer]_vars

(* ---------------------------------------------------------------------- *)
(* Several callers on one session                                          *)
(* ---------------------------------------------------------------------- *)
\* The session holds no lock: every operation is a run of transport calls
\* on self._serial, and the calls of two callers can interleave.  The
\* device answers each command frame with one handshake line and each
\* enquiry byte with one payload line; the port hands the lines out in the
\* order they arrived.  With locking the callers wrap each whole operation
\* in one exclusive lock of their own.

\* the session the callers share
Shared == 1

\* one session has been constructed; the callers serialize or do not
InitCallers ==
  /\ sess = [s \in Sessions |-> IF s = Shared THEN "open" ELSE "none"]
  /\ inst = [s \in Sessions |-> [a \in IdAttrs |-> Unset]]
  /\ func = [a \in IdAttrs |-> Unset]
  /\ pc = "idle"
  /\ cur = NoCall
  /\ trace = <<>>
  /\ outcome = NoOutcome
  /\ tidCount = [s \in Sessions |-> 0]
  /\ fetches = [s \in Sessions |-> <<>>]
  /\ calls = 0
  /\ sent = <<>>
  /\ wire = <<>>
  /\ line = NoOutcome
  /\ locking \in BOOLEAN
  /\ lock = 0
  /\ cpc = [c \in Callers |-> "idle"]
  /\ ccur = [c \in Callers |-> NoCall]
  /\ rx = <<>>
  /\ got = [c \in Callers |-> NoRead]
  /\ cres = [c \in Callers |-> NoOutcome]
  /\ mainpc = "start"
  /\ stream = NoStream

\* the handshake lines and the payload lines the device may send
HandshakeLines == { Line(ACK), Line(NACK), <<6, LF>> }
PayloadLines ==
  { Line(<<48, 44, 49, 46, 48, 69, 45, 51>>), Line(<<48, 48, 48, 48>>) }

\* variant: the frame is written twice
_write_twice(frame) == << frame, frame >>

\* Tpg26x._write: the writes it makes on the port for a frame
_write(frame) == << frame >>

\* variant: the line is returned but stays in the input buffer
Consume_peek(buf) == buf

\* self._serial.readline(): the line leaves the input buffer
Consume(buf) == Tail(buf)

\* the lines the device sends in answer to the writes of caller c
Device(c, kind, writes, data) ==
  [i \in 1..Len(writes) |-> [by |-> c, kind |-> kind, data |-> data]]

\* caller c is done with its operation; its lock, if any, is released
CallerEnds(c, result) ==
  /\ cpc' = [cpc EXCEPT ![c] = "idle"]
  /\ cres' = [cres EXCEPT ![c] = result]
  /\ lock' = IF lock = c THEN 0 ELSE lock

CallerFrame ==
  UNCHANGED <<sess, inst, func, pc, cur, trace, outcome, tidCount, fetches,
              framerVars, cliVars, locking>>

\* caller c calls an operation: send_command writes the command frame
CallerStart(c, op, mnemonic) ==
  /\ sess[Shared] = "open"
  /\ calls < MaxCalls
  /\ cpc[c] = "idle"
  /\ locking => lock = 0
  /\ lock' = IF locking THEN c ELSE lock
  /\ calls' = calls + 1
  /\ cpc' = [cpc EXCEPT ![c] = "ack"]
  /\ ccur' = [ccur EXCEPT ![c] = [session |-> Shared, op |-> op,
                                  mnemonic |-> mnemonic, args |-> <<>>]]
  /\ cres' = [cres EXCEPT ![c] = NoOutcome]
  /\ got' = [got EXCEPT ![c] = NoRead]
  /\ \E data \in HandshakeLines :
       rx' = rx \o Device(c, "handshake",
                          _write(_format(<<Mnemonics[mnemonic]>>)), data)
  /\ CallerFrame

caller_read_gauge1(c) == CallerStart(c, "read_gauge1", "PR1")

caller_get_error_status(c) == CallerStart(c, "get_error_status", "ERR")

caller_send_command(c) == CallerStart(c, "send_command", "COM")

\* send_command of caller c from its readline on: the oldest unread line
caller_recv_ack(c) ==
  /\ cpc[c] = "ack"
  /\ rx # <<>>
  /\ rx' = Consume(rx)
  /\ got' = [got EXCEPT ![c] = [by |-> Head(rx).by, kind |-> Head(rx).kind,
                                as |-> "handshake"]]
  /\ LET data == Head(rx).data
     IN  IF ~readline_ok(data) THEN CallerEnds(c, readline_error(data))
         ELSE LET ack == _handle_ack(readline_value(data), ccur[c].mnemonic)
              IN  IF ack.status = "error" \/ ccur[c].op = "send_command"
                    THEN CallerEnds(c, ack)
                  ELSE /\ cpc' = [cpc EXCEPT ![c] = "enq"]
                       /\ UNCHANGED <<cres, lock>>
  /\ UNCHANGED <<ccur, calls>>
  /\ CallerFrame

\* the enquiry of caller c
caller_enquiry(c) ==
  /\ cpc[c] = "enq"
  /\ cpc' = [cpc EXCEPT ![c] = "data"]
  /\ \E data \in PayloadLines :
       rx' = rx \o Device(c, "payload", << ENQUIRY >>, data)
  /\ UNCHANGED <<ccur, got, cres, lock, calls>>
  /\ CallerFrame

\* the readline of caller c after its enquiry and the rest of its operation
caller_recv_data(c) ==
  /\ cpc[c] = "data"
  /\ rx # <<>>
  /\ rx' = Consume(rx)
  /\ got' = [got EXCEPT ![c] = [by |-> Head(rx).by, kind |-> Head(rx).kind,
                                as |-> "payload"]]
  /\ LET data == Head(rx).data
     IN  IF ~readline_ok(data) THEN CallerEnds(c, readline_error(data))
         ELSE CallerEnds(c, Finish(ccur[c].op, ccur[c].args,
                                   readline_value(data)))
  /\ UNCHANGED <<ccur, calls>>
  /\ CallerFrame

NextCallers ==
  \/ \E c \in Callers : caller_read_gauge1(c)
  \/ \E c \in Callers : caller_get_error_status(c)
  \/ \E c \in Callers : caller_send_command(c)
  \/ \E c \in Callers : caller_recv_ack(c)
  \/ \E c \in Callers : caller_enquiry(c)
  \/ \E c \in Callers : caller_recv_data(c)

SpecCallers == InitCallers /\ [][NextCallers]_vars

(* ---------------------------------------------------------------------- *)
(* cli.main: the polling entry point                                       *)
(* ---------------------------------------------------------------------- *)
\* main constructs the session and opens the output stream
main_begin ==
  /\ mainpc = "start"
  /\ sess[Shared] = "none"
  /\ sess' = [sess EXCEPT ![Shared] = "open"]
  /\ stream' = [state |-> "open", lines |-> <<>>]
  /\ mainpc' = "polling"
  /\ UNCHANGED <<inst, func, pc, cur, trace, outcome, tidCount, fetches,
                 calls, framerVars, callerVars>>

\* the loop body calls tpg26x.read_gauge1()
main_read_gauge1 == mainpc = "polling" /\ read_gauge1(Shared)

main_recv_ack == mainpc = "polling" /\ RecvAck

main_recv_data == mainpc = "polling" /\ RecvData

\* the finally clause: stream.flush(); stream.close()
finally(lines) == stream' = [state |-> "closed", lines |-> lines]

\* read_gauge1 returned: a line is written and the loop sleeps; a status
\* that is None has no attribute value, the AttributeError leaves main
main_output ==
  /\ mainpc = "polling"
  /\ pc = "done"
  /\ outcome.status = "ok"
  /\ LET status == outcome.value[1]
     IN  IF status = "OK"
           THEN /\ stream' = [stream EXCEPT !.lines = Append(@, "Pressure")]
                /\ mainpc' = "polling"
         ELSE IF status = None
           THEN /\ finally(stream.lines)
                /\ mainpc' = "raised"
         ELSE /\ stream' = [stream EXCEPT
                              !.lines = Append(@, "Measurement failed")]
              /\ mainpc' = "polling"
  /\ pc' = "idle"
  /\ cur' = NoCall
  /\ trace' = <<>>
  /\ outcome' = NoOutcome
  /\ UNCHANGED <<sess, inst, func, tidCount, fetches, calls, framerVars,
                 callerVars>>

\* read_gauge1 raised: the exception passes through finally and leaves main
main_error ==
  /\ mainpc = "polling"
  /\ pc = "done"
  /\ outcome.status = "error"
  /\ finally(stream.lines)
  /\ mainpc' = "raised"
  /\ UNCHANGED <<sessionVars, framerVars, callerVars>>

\* KeyboardInterrupt anywhere in the try block: except, finally, return
KeyboardInterrupt ==
  /\ mainpc = "polling"
  /\ finally(stream.lines)
  /\ mainpc' = "returned"
  /\ UNCHANGED <<sessionVars, framerVars, callerVars>>

NextCli ==
  \/ main_begin
  \/ main_read_gauge1
  \/ main_recv_ack
  \/ main_recv_data
  \/ main_output
  \/ main_error
  \/ KeyboardInterrupt

SpecCli == Init /\ [][NextCli]_vars

(* ---------------------------------------------------------------------- *)
(* Properties                                                              *)
(* ---------------------------------------------------------------------- *)
AckLine == <<6, 13, 10>>
NackLine == <<21, 13, 10>>
EnquiryByte == <<5>>

\* the frame each operation is to put on the wire, byte by byte
ExpectedFrame(call) ==
  CASE call.op = "read_gauge1" -> <<80, 82, 49, 13, 10>>
    [] call.op = "read_gauge2" -> <<80, 82, 50, 13, 10>>
    [] call.op = "read_both" -> <<80, 82, 88, 13, 10>>
    [] call.op = "turn_on_gauge1" -> <<83, 69, 78, 44, 49, 44, 48, 13, 10>>
    [] call.op = "turn_on_gauge2" -> <<83, 69, 78, 44, 48, 44, 49, 13, 10>>
    [] call.op = "_turn_on_off" ->
         <<83, 69, 78, 44>> \o call.args[1] \o <<44>> \o call.args[2]
           \o <<13, 10>>
    [] call.op = "change_channel_1" -> <<83, 67, 84, 44, 48, 13, 10>>
    [] call.op = "change_channel_2" -> <<83, 67, 84, 44, 49, 13, 10>>
    [] call.op = "get_error_status" -> <<69, 82, 82, 13, 10>>
    [] call.op = "reset" -> <<82, 69, 83, 44, 49, 13, 10>>
    [] call.op \in IdAttrs -> <<84, 73, 68, 13, 10>>

DataOps ==
  ReadOps \cup {"read_both"} \cup PowerOps \cup ChannelOps
    \cup {"get_error_status", "reset"} \cup IdAttrs

\* a data operation returned normally and, if it is an identity access, it
\* was the one that fetched
CompletedDataOp ==
  /\ pc = "done"
  /\ outcome.status = "ok"
  /\ cur.op \in DataOps
  /\ (cur.op \in IdAttrs => trace # <<>>)

\* C1: a data operation that completes successfully has made exactly four
\* transport calls, in this order: a write of its command frame (mnemonic,
\* comma-joined arguments, CR LF), a line read (the ACK), a write of the
\* single byte 0x05, a line read (the payload); read_gauge1 writes PR1 CR LF.
C1_CommandAckEnquiryPayload ==
  CompletedDataOp =>
    /\ Len(trace) = 4
    /\ trace[1] = [ev |-> "write", data |-> ExpectedFrame(cur)]
    /\ trace[2] = [ev |-> "read", data |-> AckLine]
    /\ trace[3] = [ev |-> "write", data |-> EnquiryByte]
    /\ trace[4].ev = "read"

C1_Witness ==
  /\ CompletedDataOp
  /\ cur.op = "read_gauge1"
  /\ trace[1].data = <<80, 82, 49, 13, 10>>
  /\ trace[4].data = <<48, 44, 49, 46, 48, 69, 45, 51, 13, 10>>

\* send_command has read its handshake line
HandshakeRead == Len(trace) >= 2

\* send_command returned normally: the caller went on to the enquiry, or the
\* direct call returned
SendCommandSucceeded ==
  \/ Len(trace) >= 3
  \/ (cur.op = "send_command" /\ pc = "done" /\ outcome.status = "ok")

\* the handshake line as received ends in CR LF
HandshakeFramed ==
  LET raw == trace[2].data
  IN  Len(raw) >= 2 /\ raw[Len(raw) - 1] = 13 /\ raw[Len(raw)] = 10

\* C2: send_command succeeds exactly when the decoded handshake line is the
\* single byte 0x06; when it is the single byte 0x15 it raises the
\* command-rejected error carrying the mnemonic that was written; for any
\* other decoded content it raises the unexpected-reply error carrying the
\* received bytes.
C2_HandshakeOutcome ==
  HandshakeRead =>
    LET raw == trace[2].data
    IN  /\ SendCommandSucceeded <=> raw = AckLine
        /\ raw = NackLine =>
             /\ pc = "done"
             /\ outcome.status = "error"
             /\ outcome.msg = "Mnemonic was forbiddened by the TPG26x"
             /\ outcome.carry = SubSeq(trace[1].data, 1, 3)
        /\ (HandshakeFramed /\ raw # AckLine /\ raw # NackLine) =>
             /\ pc = "done"
             /\ outcome.status = "error"
             /\ outcome.msg = "Unexpected data was received"
             /\ outcome.carry \o <<13, 10>> = raw

C2_Witness ==
  /\ pc = "done"
  /\ cur.op = "send_command"
  /\ trace = << [ev |-> "write", data |-> <<67, 79, 77, 13, 10>>],
                [ev |-> "read", data |-> NackLine] >>
  /\ outcome.carry = <<67, 79, 77>>

\* the step is a call of id_gauge1 or id_gauge2 on session s
IdAccessStep(s) ==
  /\ pc = "idle"
  /\ pc' # "idle"
  /\ cur'.op \in IdAttrs
  /\ cur'.session = s

\* the first TID cycle of session s succeeded
FirstFetchSucceeded(s) == fetches[s] # <<>> /\ fetches[s][1] = "ok"

\* C3: in a session whose first identity fetch succeeded exactly one TID
\* cycle is ever issued, and every later access to id_gauge1 or id_gauge2
\* returns at once, with no transport write and no transport read.
C3_OneTidCycle ==
  [][\A s \in Sessions :
       FirstFetchSucceeded(s) =>
         /\ tidCount'[s] = 1
         /\ IdAccessStep(s) =>
              /\ pc' = "done"
              /\ outcome'.status = "ok"
              /\ trace' = <<>>]_vars

C3_Witness ==
  /\ pc = "done"
  /\ cur.op = "id_gauge2"
  /\ FirstFetchSucceeded(cur.session)
  /\ inst[cur.session]["id_gauge1"].set
  /\ inst[cur.session]["id_gauge2"].set
  /\ outcome.status = "ok"
  /\ trace = <<>>

\* session s has completed a TID cycle of its own
HasFetched(s) == \E i \in 1..Len(fetches[s]) : fetches[s][i] = "ok"

\* C4: an identity a session returns was obtained by a TID cycle on that
\* session's own transport; a session never returns an identity that
\* another session fetched.
C4_IdentityFromOwnSession ==
  (pc = "done" /\ cur.op \in IdAttrs /\ outcome.status = "ok")
    => HasFetched(cur.session)

\* the enquired payload as received has exactly two comma-separated fields,
\* a and b
TwoFields(raw, a, b) == raw = a \o <<44>> \o b \o <<13, 10>>

NoComma(f) == \A i \in 1..Len(f) : f[i] # 44

\* the two signal bytes of the SEN frame on the wire: b"SEN,x,y\r\n"
SentSignal1 == <<trace[1].data[5]>>
SentSignal2 == <<trace[1].data[7]>>

\* the power operation has received its echo, well framed
PowerEchoRead ==
  /\ pc = "done"
  /\ cur.op \in PowerOps
  /\ Len(trace) = 4
  /\ Len(trace[4].data) >= 2
  /\ SubSeq(trace[4].data, Len(trace[4].data) - 1, Len(trace[4].data))
       = <<13, 10>>

\* C5: the SEN power operation succeeds only when the echo is the two signal
\* bytes that were sent, and whenever the echo has two fields of which one
\* differs from the signal sent for that channel it raises the
\* command-not-honoured error.
C5_PowerEcho ==
  PowerEchoRead =>
    /\ outcome.status = "ok" =>
         TwoFields(trace[4].data, SentSignal1, SentSignal2)
    /\ \A k \in 1..Len(trace[4].data) - 2 :
         LET a == SubSeq(trace[4].data, 1, k - 1)
             b == SubSeq(trace[4].data, k + 1, Len(trace[4].data) - 2)
         IN  ( /\ trace[4].data[k] = 44
               /\ NoComma(a)
               /\ NoComma(b)
               /\ (a # SentSignal1 \/ b # SentSignal2) )
             => /\ outcome.status = "error"
                /\ outcome.msg = "Gauges cannot be turned on or off"

C5_Witness ==
  /\ PowerEchoRead
  /\ cur.op = "turn_on_gauge1"
  /\ trace[1].data = <<83, 69, 78, 44, 49, 44, 48, 13, 10>>
  /\ trace[4].data = <<49, 44, 50, 13, 10>>
  /\ outcome.status = "error"
  /\ outcome.msg = "Gauges cannot be turned on or off"

\* C6: a channel change writes SCT with the byte of the requested channel
\* and returns normally only if the enquired reply is exactly that byte;
\* for every other payload it raises the channel-not-changed error.
C6_ChannelEcho ==
  (pc = "done" /\ cur.op \in ChannelOps /\ Len(trace) = 4) =>
    /\ trace[1].data = <<83, 67, 84, 44>>
         \o (IF cur.op = "change_channel_1" THEN <<48>> ELSE <<49>>)
         \o <<13, 10>>
    /\ outcome.status = "ok" =>
         trace[4].data = <<trace[1].data[5], 13, 10>>

\* C7: a pressure read never returns a result whose status is not a member
\* of MeasurementStatus; a status integer outside 0..6 makes it fail.
C7_StatusInCatalog ==
  (pc = "done" /\ cur.op \in ReadOps \cup {"read_both"}
     /\ outcome.status = "ok")
    => outcome.value[1] \in MeasurementStatusNames

\* the bytes end with CR LF
EndsWithCRLF(data) ==
  Len(data) >= 2 /\ data[Len(data) - 1] = 13 /\ data[Len(data)] = 10

\* C8: readline returns the received bytes without their last two bytes if
\* and only if they end with CR LF; for every other input (empty, a single
\* byte, a line ending in LF alone) it raises the framing error and returns
\* nothing.
C8_ReadlineFraming ==
  line # NoOutcome =>
    IF EndsWithCRLF(wire)
      THEN /\ line.status = "ok"
           /\ Len(line.value) = Len(wire) - 2
           /\ line.value \o <<13, 10>> = wire
      ELSE /\ line.status = "error"
           /\ line.msg = "Unrecognizable data was received"

C8_Witness ==
  /\ sent = <<>>
  /\ wire = <<6, 13, 10>>
  /\ line = [status |-> "ok", value |-> <<6>>]

\* the bytes of the first n pieces with one separator after each
RECURSIVE Offset(_, _)
Offset(pieces, n) ==
  IF n = 0 THEN 0 ELSE Offset(pieces, n - 1) + Len(pieces[n]) + 1

\* payload is the pieces in order, one comma between neighbours and none
\* after the last
CommaJoined(payload, pieces) ==
  /\ Len(payload) = Offset(pieces, Len(pieces)) - 1
  /\ \A n \in 1..Len(pieces) :
       /\ \A i \in 1..Len(pieces[n]) :
            payload[Offset(pieces, n - 1) + i] = pieces[n][i]
       /\ n < Len(pieces) => payload[Offset(pieces, n)] = 44

\* C9: decoding the frame _format builds from a mnemonic and any arguments
\* succeeds and yields the mnemonic and the arguments joined by single
\* commas, with no trailing comma and no terminator; with no arguments the
\* frame is the mnemonic followed directly by CR LF.
C9_FrameRoundTrip ==
  (sent # <<>> /\ line # NoOutcome) =>
    /\ line.status = "ok"
    /\ CommaJoined(line.value, sent)
    /\ Len(sent) = 1 => wire = sent[1] \o <<13, 10>>

C9_Witness ==
  /\ sent = << <<83, 69, 78>>, <<48>>, <<49, 50>> >>
  /\ wire = <<83, 69, 78, 44, 48, 44, 49, 50, 13, 10>>
  /\ line = [status |-> "ok", value |-> <<83, 69, 78, 44, 48, 44, 49, 50>>]

\* the transport calls of the operation that are of one kind
Count(kind) ==
  Cardinality({ i \in 1..Len(trace) : trace[i].ev = kind })

EnquiryWrites ==
  Cardinality({ i \in 1..Len(trace) :
                  trace[i] = [ev |-> "write", data |-> EnquiryByte] })

\* C10: an operation, whatever its outcome, writes at most one command frame
\* and at most one enquiry byte and reads at most two lines; once it has
\* failed nothing more is written or read: a failure of the handshake leaves
\* the trace at the command write and one read, and no write follows the
\* read that made the operation fail.
C10_NoRetry ==
  /\ Count("read") <= 2
  /\ EnquiryWrites <= 1
  /\ Count("write") - EnquiryWrites <= 1
  /\ (pc = "done" /\ outcome.status = "error" /\ trace # <<>>) =>
       /\ trace[Len(trace)].ev = "read"
       /\ trace[2].data # AckLine => Len(trace) = 2

C10_Witness ==
  /\ pc = "done"
  /\ outcome.status = "error"
  /\ cur.op = "get_error_status"
  /\ Len(trace) = 2
  /\ trace[2].data = NackLine

\* C12: the enquiry byte is written only as the third transport call of an
\* operation, after the handshake line read was exactly ACK CR LF; when the
\* handshake line is a NACK, any other content, or badly framed, the
\* operation has ended in an error with the command write and that one read
\* as its only transport calls: no enquiry byte, no payload read.
C12_EnquiryAfterAck ==
  /\ \A i \in 1..Len(trace) :
       trace[i] = Write(EnquiryByte) =>
         /\ i = 3
         /\ trace[2] = Read(AckLine)
  /\ (Len(trace) >= 2 /\ trace[2].data # AckLine) =>
       /\ pc = "done"
       /\ outcome.status = "error"
       /\ trace = << trace[1], trace[2] >>
       /\ trace[1].ev = "write"
       /\ trace[1].data # EnquiryByte
       /\ trace[2].ev = "read"

C12_Witness ==
  /\ pc = "done"
  /\ cur.op = "read_gauge1"
  /\ trace = << Write(<<80, 82, 49, 13, 10>>), Read(<<6, 10>>) >>
  /\ outcome.status = "error"
  /\ outcome.msg = "Unrecognizable data was received"

\* the number of commas in some bytes
CommaCount(data) == Cardinality({ i \in 1..Len(data) : data[i] = 44 })

\* the step ends a TID cycle
TidCycleEnds ==
  /\ cur.op \in IdAttrs
  /\ pc \in {"ack", "data"}
  /\ pc' = "done"

\* the transport calls of a TID cycle that is to fail: the handshake line
\* is not ACK CR LF, or the payload line is badly framed or does not have
\* exactly two comma-separated fields
TidCycleBad(tr) ==
  \/ Len(tr) = 2 /\ tr[2].data # AckLine
  \/ Len(tr) = 4 /\ ~EndsWithCRLF(tr[4].data)
  \/ Len(tr) = 4 /\ CommaCount(tr[4].data) # 1

NothingCached ==
  /\ \A s \in Sessions, a \in IdAttrs : ~inst[s][a].set
  /\ \A a \in IdAttrs : ~func[a].set

\* TID cycles have been run and every one of them failed
EveryFetchFailed ==
  /\ \E s \in Sessions : fetches[s] # <<>>
  /\ \A s \in Sessions : ~HasFetched(s)

\* C13: a TID cycle whose handshake is refused, unexpected or badly framed,
\* or whose payload is badly framed or is not exactly two fields, ends in an
\* error and caches nothing: the cache is as it was and holds no identity
\* for either gauge; and while every TID cycle so far has failed, an access
\* to id_gauge1 or id_gauge2 writes the TID frame anew.
C13_FailedFetchCachesNothing ==
  [][/\ (TidCycleEnds /\ TidCycleBad(trace')) =>
          /\ outcome'.status = "error"
          /\ inst' = inst
          /\ func' = func
          /\ NothingCached'
     /\ \A s \in Sessions :
          (EveryFetchFailed /\ IdAccessStep(s)) =>
            /\ pc' = "ack"
            /\ trace' = << Write(<<84, 73, 68, 13, 10>>) >>]_vars

C13_Witness ==
  /\ pc = "ack"
  /\ cur.op \in IdAttrs
  /\ fetches[cur.session] = << "failed" >>
  /\ tidCount[cur.session] = 2
  /\ NothingCached
  /\ trace = << Write(<<84, 73, 68, 13, 10>>) >>

\* C14: every identity returned by id_gauge1 / id_gauge2 and every identity
\* held in the cache (instance entries and class-level func) is a member of
\* GaugeID; a fetch whose reply has a field outside the catalog fails.
C14_IdentityInCatalog ==
  /\ (pc = "done" /\ cur.op \in IdAttrs /\ outcome.status = "ok") =>
       outcome.value \in GaugeIDNames
  /\ \A s \in Sessions, a \in IdAttrs :
       inst[s][a].set => inst[s][a].value \in GaugeIDNames
  /\ \A a \in IdAttrs : func[a].set => func[a].value \in GaugeIDNames

PublicPowerOps ==
  { "turn_on_gauge1", "turn_on_gauge2", "turn_on_both", "turn_off_gauge1",
    "turn_off_gauge2", "turn_off_both" }

\* the SEN frame a public power operation is to write: per gauge 1 for on,
\* 2 for off, 0 for unchanged
PowerFrame(op) ==
  CASE op = "turn_on_gauge1" -> <<83, 69, 78, 44, 49, 44, 48, 13, 10>>
    [] op = "turn_on_gauge2" -> <<83, 69, 78, 44, 48, 44, 49, 13, 10>>
    [] op = "turn_on_both" -> <<83, 69, 78, 44, 49, 44, 49, 13, 10>>
    [] op = "turn_off_gauge1" -> <<83, 69, 78, 44, 50, 44, 48, 13, 10>>
    [] op = "turn_off_gauge2" -> <<83, 69, 78, 44, 48, 44, 50, 13, 10>>
    [] op = "turn_off_both" -> <<83, 69, 78, 44, 50, 44, 50, 13, 10>>

\* C15: each of the six public power operations writes exactly one SEN
\* frame, with the signal bytes of its gauges, as its first transport call;
\* none of them ends before a byte is written.
C15_PowerOperations ==
  (cur.op \in PublicPowerOps /\ pc # "idle") =>
    /\ trace # <<>>
    /\ trace[1] = Write(PowerFrame(cur.op))
    /\ Count("write") - EnquiryWrites = 1

ResetErrorStatusNames ==
  { ResetErrorStatus[i].name : i \in DOMAIN ResetErrorStatus }

\* C16: reset writes RES,1 and, when it returns, its list holds only
\* members of ResetErrorStatus, one per field of the reply; a field that is
\* no catalog code makes it fail.
C16_ResetCauses ==
  (pc = "done" /\ cur.op = "reset") =>
    /\ trace[1] = Write(<<82, 69, 83, 44, 49, 13, 10>>)
    /\ outcome.status = "ok" =>
         /\ Len(outcome.value) = CommaCount(trace[4].data) + 1
         /\ \A i \in 1..Len(outcome.value) :
              outcome.value[i] \in ResetErrorStatusNames

\* the payload of a line that ends with CR LF
Payload(raw) == SubSeq(raw, 1, Len(raw) - 2)

ErrorCodes ==
  { <<48, 48, 48, 48>>, <<48, 49, 48, 48>>, <<48, 48, 49, 48>>,
    <<48, 48, 48, 49>> }

\* get_error_status has read a well-framed payload
ErrorStatusRead ==
  /\ pc = "done"
  /\ cur.op = "get_error_status"
  /\ Len(trace) = 4
  /\ EndsWithCRLF(trace[4].data)

\* C17: get_error_status returns a member of ErrorStatus exactly when the
\* payload is 0000, 0100, 0010 or 0001, namely NO_ERROR, NO_HARDWARE,
\* INADMISSIBLE_PARAMETER, SYNTAX_ERROR in that order, and never ERROR; for
\* every other payload it raises the unexpected-binary error carrying the
\* payload.
C17_ErrorStatus ==
  ErrorStatusRead =>
    LET code == Payload(trace[4].data)
    IN  /\ outcome.status = "ok" <=> code \in ErrorCodes
        /\ outcome.status = "ok" =>
             /\ outcome.value # "ERROR"
             /\ outcome.value =
                  ( CASE code = <<48, 48, 48, 48>> -> "NO_ERROR"
                      [] code = <<48, 49, 48, 48>> -> "NO_HARDWARE"
                      [] code = <<48, 48, 49, 48>> -> "INADMISSIBLE_PARAMETER"
                      [] code = <<48, 48, 48, 49>> -> "SYNTAX_ERROR" )
        /\ outcome.status # "ok" =>
             /\ outcome.status = "error"
             /\ outcome.type = "IOError"
             /\ outcome.msg = "Unexpected binary was received"
             /\ outcome.carry = code

C17_Witness ==
  /\ ErrorStatusRead
  /\ trace[4].data = <<48, 48, 48, 48, 13, 10>>
  /\ outcome = Ok("NO_ERROR")

\* the member of ResetErrorStatus a reply field stands for
ResetCauseOf(field) ==
  CASE field = <<48>> -> "NO_ERROR"
    [] field = <<49>> -> "WATCHDOG_RESPONDED"
    [] field = <<50>> -> "TASK_FAILED"
    [] field = <<51>> -> "EPROM_ERROR"
    [] field = <<52>> -> "RAM_ERROR"
    [] field = <<53>> -> "EEPROM_ERROR"
    [] field = <<54>> -> "DISPLAY_ERROR"
    [] field = <<55>> -> "AD_CONVERTER_ERROR"
    [] field = <<57>> -> "GAUGE1_ERROR"
    [] field = <<49, 48>> -> "GAUGE1_IDENTIFICATION_ERROR"
    [] field = <<49, 49>> -> "GAUGE2_ERROR"
    [] field = <<49, 50>> -> "GAUGE2_IDENTIFICATION_ERROR"
    [] OTHER -> None

\* what an operation other than an identity access makes of a well-framed
\* payload p, written out for the payloads a device is taken to send
PayloadResult(call, p) ==
  CASE call.op \in ReadOps ->
         ( CASE p = <<48, 44, 49, 46, 48, 69, 45, 51>> ->
                  Ok(<< "OK", <<1, -3>> >>)
             [] p = <<57, 44, 49, 46, 48, 69, 45, 51>> ->
                  Ok(<< None, <<1, -3>> >>)
             [] OTHER -> Error("ValueError", "ValueError", <<>>) )
    [] call.op = "read_both" ->
         IF p = <<48, 44, 49, 69, 48, 44, 50, 69, 48>>
           THEN Ok(<< "OK", <<1, 0>>, <<2, 0>> >>)
           ELSE Error("ValueError", "ValueError", <<>>)
    [] call.op \in PowerOps ->
         IF p = call.args[1] \o <<44>> \o call.args[2] THEN Ok(None)
         ELSE IF CommaCount(p) = 1
           THEN Error("IOError", "Gauges cannot be turned on or off", p)
         ELSE Error("ValueError", "ValueError", <<>>)
    [] call.op = "change_channel_1" ->
         IF p = <<48>> THEN Ok(None)
         ELSE Error("IOError",
                    "Measurement channel wasn't changed appropriately", <<>>)
    [] call.op = "change_channel_2" ->
         IF p # <<48>> THEN Ok(None)
         ELSE Error("IOError",
                    "Measurement channel wasn't changed appropriately", <<>>)
    [] call.op = "get_error_status" ->
         ( CASE p = <<48, 48, 48, 48>> -> Ok("NO_ERROR")
             [] p = <<48, 49, 48, 48>> -> Ok("NO_HARDWARE")
             [] p = <<48, 48, 49, 48>> -> Ok("INADMISSIBLE_PARAMETER")
             [] p = <<48, 48, 48, 49>> -> Ok("SYNTAX_ERROR")
             [] OTHER -> Error("IOError", "Unexpected binary was received",
                               p) )
    [] call.op = "reset" ->
         LET fields == Split(p, 44)
         IN  Ok([i \in 1..Len(fields) |-> ResetCauseOf(fields[i])])

\* the result of an operation other than an identity access as a function
\* of the call and of the bytes it exchanged, tr
ResultOf(call, tr) ==
  IF tr = <<>>
    THEN Error("AttributeError", "no such attribute", <<>>)
  ELSE IF ~EndsWithCRLF(tr[2].data)
    THEN Error("IOError", "Unrecognizable data was received", tr[2].data)
  ELSE IF tr[2].data = NackLine
    THEN Error("IOError", "Mnemonic was forbiddened by the TPG26x",
               SubSeq(tr[1].data, 1, 3))
  ELSE IF tr[2].data # AckLine
    THEN Error("IOError", "Unexpected data was received",
               Payload(tr[2].data))
  ELSE IF call.op = "send_command" THEN Ok(None)
  ELSE IF ~EndsWithCRLF(tr[4].data)
    THEN Error("IOError", "Unrecognizable data was received", tr[4].data)
  ELSE PayloadResult(call, Payload(tr[4].data))

\* the step is taken by an operation other than an identity access
OtherOperationStep == cur'.op \notin IdAttrs \cup {"none"}

\* C18: every step of an operation other than id_gauge1 / id_gauge2, up to
\* and including the one that ends it in a result or in an error, leaves the
\* cached identities (instance entries of every session and the class-level
\* func) as they were, and the result it ends with is a function of the
\* call and of the bytes written and read during that operation alone.
C18_OnlyCachePersists ==
  [][OtherOperationStep =>
       /\ inst' = inst
       /\ func' = func
       /\ pc' = "done" => outcome' = ResultOf(cur', trace')]_vars

\* a pressure read ended on a session that holds cached identities
C18_Witness ==
  /\ pc = "done"
  /\ cur.op = "read_gauge1"
  /\ outcome.status = "ok"
  /\ inst[cur.session]["id_gauge1"].set
  /\ func["id_gauge1"].set

\* the step is the command write of a caller's operation
CommandWriteStep == calls' = calls + 1

\* C11: when operations are issued one after another, every line the device
\* has sent has been read before the next command frame is written, whether
\* the operations before it returned or raised; at most one line is ever
\* waiting to be read.
C11_SingleOutstanding ==
  [][locking =>
       /\ CommandWriteStep => rx = <<>>
       /\ Len(rx') <= 1]_vars

\* a second operation has written its frame after one that failed
C11_Witness ==
  /\ locking
  /\ calls = 2
  /\ Len(rx) = 1
  /\ \E c, d \in Callers :
       /\ cpc[c] = "ack"
       /\ cres[d].status = "error"
       /\ got[d].as = "payload"

\* caller c has read a line the device sent in answer to another caller
ReadForeignLine(c) == got[c].by \notin {0, c}

\* C19: when each whole operation runs under one exclusive lock, no caller
\* ever reads a line the device sent in answer to another caller's command
\* or enquiry, and every line is read as what it was sent as.
C19_LockedCyclesIntact ==
  locking =>
    \A c \in Callers :
      /\ ~ReadForeignLine(c)
      /\ got[c].kind = got[c].as

\* without a lock: a caller has consumed, as its payload, the handshake
\* line the device sent in answer to the other caller's command
C19_Witness ==
  /\ ~locking
  /\ \E c \in Callers :
       /\ ReadForeignLine(c)
       /\ got[c].kind = "handshake"
       /\ got[c].as = "payload"

\* main has stopped: it returned after an interrupt or an exception left it
MainStopped == mainpc \in {"returned", "raised"}

\* C20: once main has stopped, on an interrupt or on an error raised by
\* read_gauge1, the transport of its session has been closed; and no
\* operation is started on a session whose transport is closed.
C20_TeardownClosesTransport ==
  /\ [](MainStopped => sess[Shared] = "closed")
  /\ [][sess[Shared] = "closed" => calls' = calls]_vars

====
